---- MODULE Spec2Model ----
(***************************************************************************)
(* Authentication and session lifecycle of the play_sphere backend:        *)
(* loginUser, verifyJWT, refreshAccessToken and logoutUser, together with   *)
(* the user document's refreshToken slot, the two JWT kinds and the error   *)
(* handler.  Every request is a sequence of steps; a step is the code that  *)
(* runs between two awaits of the handler, together with the one database   *)
(* operation whose result it awaits (Node runs the code between awaits      *)
(* without interleaving, MongoDB runs each single-document operation        *)
(* atomically).                                                             *)
(***************************************************************************)
EXTENDS Integers, FiniteSets, Sequences, TLC

(* ------------------------------ bounds --------------------------------- *)
\* number of requests of one behaviour
NumReq == 3
\* last second of the clock
MaxTime == 2
\* ACCESS_TOKEN_EXPIRY and REFRESH_TOKEN_EXPIRY, in seconds of the clock
AccessTTL == 1
RefreshTTL == 2

Req == 1..NumReq

(* ------------------------------ the store ------------------------------ *)
Users == {"u1", "u2"}
\* an _id that a correctly signed token can carry and no document has
Ghost == "u9"
None == "none"

\* bcrypt.hash / bcrypt.compare
Hash(p) == "bcrypt:" \o p

\* the token forms: an absent value, a string that is no JWT, a signed JWT
NoTok == [form |-> "absent", key |-> None, kind |-> None, sub |-> None, iat |-> 0, exp |-> 0]
Garbage == [form |-> "garbage", key |-> None, kind |-> None, sub |-> None, iat |-> 0, exp |-> 0]

\* jwt.sign(payload, secret, {expiresIn}): HS256 is a function of payload
\* (with iat, exp in whole seconds) and secret
JwtSign(kind, sub, secret, ttl, t) ==
    [form |-> "jwt", key |-> secret, kind |-> kind, sub |-> sub, iat |-> t, exp |-> t + ttl]

\* a verification that does not look at the signature
JwtVerify_AnySignature(tok, secret, t) ==
    /\ tok.form = "jwt"
    /\ t < tok.exp

\* a verification that does not look at the expiry
JwtVerify_NoExpiry(tok, secret, t) ==
    /\ tok.form = "jwt"
    /\ tok.key = secret

\* jwt.verify(token, secret): the decoded payload, or a throw on a string that
\* is no JWT, a signature of another secret, or clock >= exp
JwtVerify(tok, secret, t) ==
    /\ tok.form = "jwt"
    /\ tok.key = secret
    /\ t < tok.exp

\* the access token signed with the refresh secret
generateAccessToken_RefreshSecret(u, t) ==
    JwtSign("access", u, "REFRESH_TOKEN_SECRET", AccessTTL, t)

generateAccessToken(u, t) == JwtSign("access", u, "ACCESS_TOKEN_SECRET", AccessTTL, t)
\* the refresh token signed with the access secret
generateRefreshToken_AccessSecret(u, t) ==
    JwtSign("refresh", u, "ACCESS_TOKEN_SECRET", RefreshTTL, t)

generateRefreshToken(u, t) == JwtSign("refresh", u, "REFRESH_TOKEN_SECRET", RefreshTTL, t)

isPasswordCorrect(doc, password) == doc.password = Hash(password)

\* the documents registration created
InitDoc(u) ==
    [username |-> "name_" \o u, email |-> "mail_" \o u, fullname |-> "full_" \o u,
     password |-> Hash("pw_" \o u), refreshToken |-> NoTok]

\* a query that returns the whole document
select_Everything(u, doc, excluded) ==
    [k \in {"id"} \cup DOMAIN doc |-> IF k = "id" THEN u ELSE doc[k]]

\* findById(id).select("-password -refreshToken"): the document of that id
\* without the excluded paths
select(u, doc, excluded) ==
    [k \in ({"id"} \cup DOMAIN doc) \ excluded |-> IF k = "id" THEN u ELSE doc[k]]

\* no user object
NoUser == [id |-> None]

\* boundary is the error handler seen on its own: the NODE_ENV of the process,
\* the error handed to it and the response it wrote
VARIABLES db, now, req, boundary
vars == <<db, now, req, boundary>>

(* ------------------------------ requests ------------------------------- *)
IdleReq ==
    [op |-> None, pc |-> "idle", fresh |-> FALSE,
     email |-> None, username |-> None, password |-> None,
     cookie |-> NoTok, alt |-> NoTok, token |-> NoTok,
     uid |-> None, loaded |-> NoTok, newA |-> NoTok, newR |-> NoTok,
     identity |-> None, ran |-> FALSE,
     status |-> 0, msg |-> None,
     bodyA |-> NoTok, bodyR |-> NoTok, cookieA |-> NoTok, cookieR |-> NoTok,
     cleared |-> FALSE,
     sawStored |-> FALSE, replay |-> FALSE, afterLogout |-> FALSE, prevSlot |-> NoTok,
     failure |-> None, failedAt |-> None,
     scheme |-> None, authz |-> NoTok,
     user |-> NoUser, bodyUser |-> NoUser,
     logged |-> {}]

NoResponse == [status |-> 0, body |-> <<>>]
IdleBoundary == [env |-> "production", err |-> None, response |-> NoResponse]

Init ==
    /\ db = [u \in Users |-> InitDoc(u)]
    /\ now = 0
    /\ req = [r \in Req |-> IdleReq]
    /\ boundary = IdleBoundary

\* new ApiError(statusCode, message, errors, stack): the properties of the
\* instance.  A stack that is not given is captured at the constructor.
ApiErrorWith(statusCode, message, errors, stack) ==
    [isApiError |-> TRUE, isMongoose |-> FALSE,
     statusCode |-> statusCode, data |-> None, message |-> message,
     success |-> FALSE, errors |-> errors,
     stack |-> IF stack # "" THEN stack ELSE "at new ApiError"]

\* asyncHandler's catch hands the thrown error to errorHandler, which answers
\* with the error's statusCode; nothing of the handler runs after the throw
ApiError(statusCode, message) == ApiErrorWith(statusCode, message, <<>>, "")

\* an error response after which the handler runs on
errorHandler_Continues(rq, err) ==
    [rq EXCEPT !.status = err.statusCode, !.msg = err.message]

errorHandler(rq, err) ==
    [rq EXCEPT !.pc = "done", !.status = err.statusCode, !.msg = err.message]

\* console.log / console.error: the kinds of value the request has written to
\* the server log
consoleLog(rq, items) == [rq EXCEPT !.logged = @ \cup items]

\* a delivery that forgets the refresh-token cookie
deliver_AccessCookieOnly(rq, a, b, message) ==
    [rq EXCEPT !.pc = "done", !.status = 200, !.msg = message,
               !.cookieA = a, !.bodyA = a, !.bodyR = b]

\* res.status(200).cookie("accessToken", a).cookie("refreshToken", b).json({.., a, b})
deliver(rq, a, b, message) ==
    [rq EXCEPT !.pc = "done", !.status = 200, !.msg = message,
               !.cookieA = a, !.cookieR = b, !.bodyA = a, !.bodyR = b]

\* an error that is no ApiError, as errorHandler reads it: whether it is a
\* mongoose.Error, its statusCode (0 when it has none), its message ("" when
\* it has none) and its errors (<<>> when it has none)
PlainError(isMongoose, statusCode, message, errors) ==
    [isApiError |-> FALSE, isMongoose |-> isMongoose,
     statusCode |-> statusCode, data |-> None, message |-> message,
     success |-> FALSE, errors |-> errors, stack |-> "at handler"]

\* the properties the object spread {...error} copies from an ApiError: its
\* own enumerable ones.  The constructor creates statusCode, data, success and
\* errors by assignment; message is created by super(message) and stack by
\* the Error constructor, both not enumerable, and the assignments
\* this.message = message and this.stack = stack keep that attribute
EnumerableOfApiError == {"statusCode", "data", "success", "errors"}

spread(error) == [k \in EnumerableOfApiError |-> error[k]]

\* lines 21-35: an error that is no ApiError is replaced by a new ApiError.
\* error.statusCode || error instanceof mongoose.Error ? 400 : 500 is
\* (error.statusCode || error instanceof mongoose.Error) ? 400 : 500
normalise(err) ==
    IF err.isApiError
    THEN err
    ELSE ApiErrorWith(IF err.statusCode # 0 \/ err.isMongoose THEN 400 ELSE 500,
                      IF err.message # "" THEN err.message ELSE "Something went wrong",
                      err.errors, err.stack)

\* lines 39-52: res.status(error.statusCode).json(response)
ErrorResponse(err, nodeEnv) ==
    LET error == normalise(err)
    IN [status |-> error.statusCode,
        body |-> IF nodeEnv = "development"
                 THEN spread(error) @@ [stack |-> error.stack]
                 ELSE spread(error)]

\* the second source before the first
OrElse_SecondFirst(a, b) == IF b # NoTok THEN b ELSE a

\* req.header("Authorization")?.replace("Bearer ", ""): an Authorization
\* header is the string scheme \o payload.  No header gives undefined; the
\* prefix "Bearer " is cut off; a header without that prefix is left as it is,
\* which is the payload itself when the scheme is empty and no JWT otherwise
replaceBearer(scheme, payload) ==
    IF scheme = None THEN NoTok
    ELSE IF scheme \in {"Bearer ", ""} THEN payload
    ELSE Garbage

\* a || b of JavaScript on optional strings
OrElse(a, b) == IF a # NoTok THEN a ELSE b

\* what a client can present: the tokens the server has handed out, and a few
\* it never issued
Issued == UNION {{req[q].bodyA, req[q].bodyR} : q \in Req} \ {NoTok}
BadSig == JwtSign("refresh", "u1", "OTHER_SECRET", RefreshTTL, 0)
GhostR == generateRefreshToken(Ghost, 0)
GhostA == generateAccessToken(Ghost, 0)
\* <<cookie, body field, token of an Authorization header>> of a refresh request
RefreshInputs ==
    {<<c, NoTok, NoTok>> : c \in Issued \cup {NoTok, Garbage, BadSig, GhostR}}
\* <<cookie, scheme and payload of the Authorization header>> of a request to
\* a protected route
AuthInputs == {<<c, None, NoTok>> : c \in Issued \cup {NoTok, Garbage, GhostA}}

\* requests that carry a token in more than one place
RefreshInputsAll ==
    {<<c, b, h>> : c \in Issued \cup {NoTok, Garbage},
                   b \in Issued \cup {NoTok},
                   h \in Issued \cup {NoTok}}
AuthInputsAll ==
    {<<c, None, NoTok>> : c \in Issued \cup {NoTok, Garbage}}
    \cup {<<c, sch, h>> : c \in Issued \cup {NoTok, Garbage},
                          sch \in {"Bearer ", "", "Basic "},
                          h \in Issued \cup {Garbage}}

\* <<email, username, password>> of a login request
LoginInputs ==
    {<<"mail_u1", None, "pw_u1">>, <<"mail_u2", None, "pw_u2">>,
     <<"mail_u1", None, "pw_u2">>, <<"mail_nobody", None, "pw_u1">>,
     <<None, "name_u1", "pw_u1">>, <<"mail_u1", None, None>>,
     <<None, None, "pw_u1">>,
     <<"mail_u2", "name_u1", "pw_u1">>}

\* requests arrive in the order of their numbers
CanStart(r) ==
    /\ req[r].pc = "idle"
    /\ \A q \in Req : q < r => req[q].pc # "idle"

(* ------------------------------ loginUser ------------------------------ *)
\* a validation that asks for the email alone
LoginStart_EmailOnly(r) ==
    /\ CanStart(r)
    /\ \E in \in LoginInputs :
         LET email == in[1]
             rq == [req[r] EXCEPT !.op = "login", !.email = email,
                                  !.username = in[2], !.password = in[3]]
         IN req' = [req EXCEPT ![r] =
                IF email = None
                THEN errorHandler(rq, ApiError(400, "Email is required"))
                ELSE [rq EXCEPT !.pc = "l_find"]]
    /\ UNCHANGED <<db, now, boundary>>

\* lines 143-148, up to the await of User.findOne
LoginStart(r) ==
    /\ CanStart(r)
    /\ \E in \in LoginInputs :
         LET email == in[1]
             password == in[3]
             rq == [req[r] EXCEPT !.op = "login", !.email = email,
                                  !.username = in[2], !.password = password]
         IN req' = [req EXCEPT ![r] =
                IF email = None \/ password = None
                THEN errorHandler(rq, ApiError(400, "Email is required"))
                ELSE [rq EXCEPT !.pc = "l_find"]]
    /\ UNCHANGED <<db, now, boundary>>

\* User.findOne({$or: [{username}, {email}]}): the documents it can return
findOneByUsernameOrEmail(n, e) ==
    {u \in Users : db[u].username = n \/ db[u].email = e}

\* a lookup that answers an unknown identifier like a wrong password
LoginFind_NotFoundAsCredentials(r) ==
    /\ req[r].op = "login" /\ req[r].pc = "l_find"
    /\ LET found == findOneByUsernameOrEmail(req[r].username, req[r].email)
       IN IF found = {}
          THEN req' = [req EXCEPT ![r] =
                    errorHandler(@, ApiError(400, "Invalid user credentials"))]
          ELSE \E u \in found :
                 req' = [req EXCEPT ![r] =
                    IF ~isPasswordCorrect(db[u], req[r].password)
                    THEN errorHandler(@, ApiError(400, "Invalid user credentials"))
                    ELSE [@ EXCEPT !.uid = u, !.pc = "g_find"]]
    /\ UNCHANGED <<db, now, boundary>>

\* lines 151-166: findOne resolves, the password is compared, and
\* generateAccessAndRefreshToken is entered up to its await of User.findById
LoginFind(r) ==
    /\ req[r].op = "login" /\ req[r].pc = "l_find"
    /\ LET found == findOneByUsernameOrEmail(req[r].username, req[r].email)
       IN IF found = {}
          THEN req' = [req EXCEPT ![r] = errorHandler(@, ApiError(404, "User not found"))]
          ELSE \E u \in found :
                 req' = [req EXCEPT ![r] =
                    IF ~isPasswordCorrect(db[u], req[r].password)
                    THEN errorHandler(@, ApiError(400, "Invalid user credentials"))
                    ELSE [@ EXCEPT !.uid = u, !.pc = "g_find"]]
    /\ UNCHANGED <<db, now, boundary>>

(* -------------------- generateAccessAndRefreshToken -------------------- *)
\* lines 17-31: findById resolves, both tokens are signed, the document's
\* refreshToken is assigned and save() is awaited
GenFind(r) ==
    /\ req[r].pc = "g_find"
    /\ req' = [req EXCEPT ![r] =
         IF req[r].uid \notin Users
         THEN errorHandler(consoleLog(@, {"error"}), ApiError(500,
                IF req[r].op = "refresh"
                THEN "Something went wrong while refreshing access token"
                ELSE "Something went wrong while generating access and refresh tokens"))
         ELSE [@ EXCEPT !.loaded = db[req[r].uid].refreshToken,
                        !.newA = generateAccessToken(req[r].uid, now),
                        !.newR = generateRefreshToken(req[r].uid, now),
                        !.pc = "g_save"]]
    /\ UNCHANGED <<db, now, boundary>>

\* a hook that hashes the password on every save
preSave_AlwaysHash(doc, modified) == [doc EXCEPT !.password = Hash(@)]

\* userSchema.pre("save"): the password is hashed when it was modified
preSave(doc, modified) ==
    IF "password" \in modified THEN [doc EXCEPT !.password = Hash(@)] ELSE doc

\* document.save(): an update of the paths that were modified since the
\* document was loaded, here refreshToken alone, and none when the assigned
\* value equals the loaded one
\* a save that writes the token only over an existing session
save_OverSessionOnly(doc, rq) ==
    IF doc.refreshToken # NoTok /\ rq.newR # rq.loaded
    THEN [doc EXCEPT !.refreshToken = rq.newR]
    ELSE doc

\* a save that stores the access token in the slot
save_AccessToken(doc, rq) ==
    IF rq.newR # rq.loaded THEN [doc EXCEPT !.refreshToken = rq.newA] ELSE doc

save(doc, rq) ==
    IF rq.newR # rq.loaded
    THEN preSave([doc EXCEPT !.refreshToken = rq.newR], {"refreshToken"})
    ELSE preSave(doc, {})

\* a save that writes the new token into every user's document
GenSave_EverySlot(r) ==
    /\ req[r].pc = "g_save"
    /\ db' = [u \in Users |-> save(db[u], req[r])]
    /\ req' = [req EXCEPT ![r] =
         IF req[r].op = "refresh"
         THEN deliver(@, req[r].newA, req[r].newR, "Access token refreshed successfully")
         ELSE [@ EXCEPT !.pc = "l_find2"]]
    /\ UNCHANGED <<now, boundary>>

\* line 31 commits and line 33 returns to the caller: refreshAccessToken answers
\* (lines 279-283), loginUser awaits its second findById (line 169)
GenSave(r) ==
    /\ req[r].pc = "g_save"
    /\ db' = [db EXCEPT ![req[r].uid] = save(@, req[r])]
    /\ req' = [req EXCEPT ![r] =
         IF req[r].op = "refresh"
         THEN deliver(@, req[r].newA, req[r].newR, "Access token refreshed successfully")
         ELSE [@ EXCEPT !.pc = "l_find2"]]
    /\ UNCHANGED <<now, boundary>>

\* lines 169-191
LoginRespond(r) ==
    /\ req[r].op = "login" /\ req[r].pc = "l_find2"
    /\ req' = [req EXCEPT ![r] =
         IF req[r].uid \notin Users
         THEN errorHandler(@, ApiError(500, "Could not login user"))
         ELSE [deliver(@, req[r].newA, req[r].newR, "User logged in successfully")
                 EXCEPT !.bodyUser = select(req[r].uid, db[req[r].uid],
                                            {"password", "refreshToken"})]]
    /\ UNCHANGED <<db, now, boundary>>

(* -------------------------- refreshAccessToken ------------------------- *)
RefreshFailed == ApiError(500, "Something went wrong while refreshing access token")

\* lines 234-256: the token is taken from the cookie or the body, written to
\* the log together with the secret (lines 239, 243) and verified, and the
\* decoded payload is written to the log (line 253); every throw inside the
\* try block is caught at line 284, logged and rethrown as 500
RefreshStartWith(r, inputs) ==
    /\ CanStart(r)
    /\ \E in \in inputs :
         LET incomingRefreshToken == OrElse(in[1], in[2])
             rq == [req[r] EXCEPT
                      !.op = "refresh", !.fresh = now < incomingRefreshToken.exp,
                      !.cookie = in[1], !.alt = in[2], !.authz = in[3],
                      !.token = incomingRefreshToken,
                      !.sawStored = /\ incomingRefreshToken.sub \in Users
                                    /\ db[incomingRefreshToken.sub].refreshToken
                                          = incomingRefreshToken,
                      !.replay = \E q \in Req :
                                    /\ req[q].op = "refresh" /\ req[q].status = 200
                                    /\ req[q].token = incomingRefreshToken,
                      !.afterLogout = \E q \in Req :
                                    /\ req[q].op = "logout" /\ req[q].status = 200
                                    /\ req[q].prevSlot = incomingRefreshToken]
             seen == consoleLog(rq, {"token string", "signing secret"})
         IN req' = [req EXCEPT ![r] =
                IF incomingRefreshToken = NoTok
                THEN errorHandler(rq, ApiError(401, "Refresh token is required"))
                ELSE IF ~JwtVerify(incomingRefreshToken, "REFRESH_TOKEN_SECRET", now)
                THEN errorHandler(consoleLog(seen, {"error"}), RefreshFailed)
                ELSE [consoleLog(seen, {"decoded claims"})
                        EXCEPT !.uid = incomingRefreshToken.sub, !.pc = "r_find"]]
    /\ UNCHANGED <<db, now, boundary>>

RefreshStart(r) == RefreshStartWith(r, RefreshInputs)

\* a comparison of the subject alone, in place of the string comparison
MatchesStored_SubjectOnly(incoming, doc) ==
    doc.refreshToken.form = "jwt" /\ incoming.sub = doc.refreshToken.sub

\* line 264: incomingRefreshToken !== user?.refreshToken, negated
MatchesStored(incoming, doc) == incoming = doc.refreshToken

\* a lookup that ends the session when the presented token is not the stored one
RefreshFind_RevokesOnMismatch(r) ==
    /\ req[r].op = "refresh" /\ req[r].pc = "r_find"
    /\ req' = [req EXCEPT ![r] =
         IF req[r].uid \notin Users
         THEN errorHandler(@, RefreshFailed)
         ELSE IF ~MatchesStored(req[r].token, db[req[r].uid])
         THEN errorHandler(@, RefreshFailed)
         ELSE [@ EXCEPT !.pc = "g_find"]]
    /\ db' = [u \in Users |->
                IF u = req[r].uid /\ ~MatchesStored(req[r].token, db[u])
                THEN [db[u] EXCEPT !.refreshToken = NoTok] ELSE db[u]]
    /\ UNCHANGED <<now, boundary>>

\* a lookup whose mismatch error reaches the client as it was thrown
RefreshFind_MismatchTold(r) ==
    /\ req[r].op = "refresh" /\ req[r].pc = "r_find"
    /\ req' = [req EXCEPT ![r] =
         IF req[r].uid \notin Users
         THEN errorHandler(@, RefreshFailed)
         ELSE IF ~MatchesStored(req[r].token, db[req[r].uid])
         THEN errorHandler(@, ApiError(401, "Invalid refresh token"))
         ELSE [@ EXCEPT !.pc = "g_find"]]
    /\ UNCHANGED <<db, now, boundary>>

\* lines 256-276: findById resolves, the incoming token is compared with the
\* stored one, and generateAccessAndRefreshToken is entered
RefreshFind(r) ==
    /\ req[r].op = "refresh" /\ req[r].pc = "r_find"
    /\ req' = [req EXCEPT ![r] =
         IF req[r].uid \notin Users
         THEN errorHandler(consoleLog(@, {"error"}), RefreshFailed)
         ELSE IF ~MatchesStored(req[r].token, db[req[r].uid])
         THEN errorHandler(consoleLog(@, {"token string", "error"}), RefreshFailed)
         ELSE [@ EXCEPT !.pc = "g_find"]]
    /\ UNCHANGED <<db, now, boundary>>

(* ------------------------------ verifyJWT ------------------------------ *)
ProtectedOps == {"logout", "currentUser"}

\* lines 68-87: the token is taken from the cookie or the Authorization header
\* and verified; a throw inside the try block is rethrown as 401 at line 102
AuthStartWith(r, inputs) ==
    /\ CanStart(r)
    /\ \E o \in ProtectedOps, in \in inputs :
         LET token == OrElse(in[1], replaceBearer(in[2], in[3]))
             rq == [req[r] EXCEPT !.op = o, !.fresh = now < token.exp, !.cookie = in[1],
                                  !.scheme = in[2], !.alt = in[3], !.token = token,
                                  !.afterLogout = \E q \in Req :
                                        /\ req[q].op = "logout" /\ req[q].status = 200
                                        /\ req[q].identity = token.sub]
             seen == consoleLog(rq, {"token string"})
         IN req' = [req EXCEPT ![r] =
                IF token = NoTok
                THEN errorHandler(rq, ApiError(401, "Not authorized, no token"))
                ELSE IF ~JwtVerify(token, "ACCESS_TOKEN_SECRET", now)
                THEN errorHandler(consoleLog(seen, {"error"}),
                                  ApiError(401, "Not authorized, token failed"))
                ELSE [consoleLog(seen, {"decoded claims"})
                        EXCEPT !.uid = token.sub, !.pc = "a_find"]]
    /\ UNCHANGED <<db, now, boundary>>

AuthStart(r) == AuthStartWith(r, AuthInputs)

\* a lookup that ends the user's session when it authenticates a request
AuthFind_ClearsSlot(r) ==
    /\ req[r].op \in ProtectedOps /\ req[r].pc = "a_find"
    /\ req' = [req EXCEPT ![r] =
         IF req[r].uid \notin Users
         THEN errorHandler(@, ApiError(401, "Not authorized, token failed"))
         ELSE IF req[r].op = "logout"
         THEN [@ EXCEPT !.identity = req[r].uid, !.ran = TRUE, !.pc = "lo_update",
                        !.user = select(req[r].uid, db[req[r].uid],
                                        {"password", "refreshToken"})]
         ELSE [@ EXCEPT !.identity = req[r].uid, !.ran = TRUE, !.pc = "done",
                        !.user = select(req[r].uid, db[req[r].uid],
                                        {"password", "refreshToken"}),
                        !.bodyUser = select(req[r].uid, db[req[r].uid],
                                            {"password", "refreshToken"}),
                        !.status = 200, !.msg = "User fetched successfully"]]
    /\ db' = [u \in Users |->
                IF u = req[r].uid THEN [db[u] EXCEPT !.refreshToken = NoTok] ELSE db[u]]
    /\ UNCHANGED <<now, boundary>>

\* a lookup that also asks for a session in the user's slot
AuthFind_NeedsSession(r) ==
    /\ req[r].op \in ProtectedOps /\ req[r].pc = "a_find"
    /\ req' = [req EXCEPT ![r] =
         IF req[r].uid \notin Users \/ db[req[r].uid].refreshToken = NoTok
         THEN errorHandler(@, ApiError(401, "Not authorized, token failed"))
         ELSE IF req[r].op = "logout"
         THEN [@ EXCEPT !.identity = req[r].uid, !.ran = TRUE, !.pc = "lo_update",
                        !.user = select(req[r].uid, db[req[r].uid],
                                        {"password", "refreshToken"})]
         ELSE [@ EXCEPT !.identity = req[r].uid, !.ran = TRUE, !.pc = "done",
                        !.user = select(req[r].uid, db[req[r].uid],
                                        {"password", "refreshToken"}),
                        !.bodyUser = select(req[r].uid, db[req[r].uid],
                                            {"password", "refreshToken"}),
                        !.status = 200, !.msg = "User fetched successfully"]]
    /\ UNCHANGED <<db, now, boundary>>

\* lines 87-99: findById resolves; req.user is attached and next() enters the
\* protected handler: getCurrentUser answers at once (lines 320-329),
\* logoutUser runs up to its await of findByIdAndUpdate (line 202)
AuthFind(r) ==
    /\ req[r].op \in ProtectedOps /\ req[r].pc = "a_find"
    /\ req' = [req EXCEPT ![r] =
         IF req[r].uid \notin Users
         THEN errorHandler(consoleLog(@, {"user object", "error"}),
                           ApiError(401, "Not authorized, token failed"))
         ELSE IF req[r].op = "logout"
         THEN [consoleLog(@, {"user object"})
                 EXCEPT !.identity = req[r].uid, !.ran = TRUE, !.pc = "lo_update",
                        !.user = select(req[r].uid, db[req[r].uid],
                                        {"password", "refreshToken"})]
         ELSE [consoleLog(@, {"user object"})
                 EXCEPT !.identity = req[r].uid, !.ran = TRUE, !.pc = "done",
                        !.user = select(req[r].uid, db[req[r].uid],
                                        {"password", "refreshToken"}),
                        !.bodyUser = select(req[r].uid, db[req[r].uid],
                                            {"password", "refreshToken"}),
                        !.status = 200, !.msg = "User fetched successfully"]]
    /\ UNCHANGED <<db, now, boundary>>

(* ------------------------------ logoutUser ----------------------------- *)
\* findByIdAndUpdate(id, {$set: {refreshToken: undefined}}): what the update
\* leaves in the slot.  Mongoose 5 sends the undefined value, which the
\* driver stores as null; Mongoose 6 and later strip undefined keys from an
\* update, which leaves the slot as it was.  The sources do not pin the version.
clearRefreshToken(doc) == {[doc EXCEPT !.refreshToken = NoTok], doc}

\* lines 202-223: findByIdAndUpdate commits, both cookies are cleared
LogoutUpdate(r) ==
    /\ req[r].op = "logout" /\ req[r].pc = "lo_update"
    /\ \E updated \in clearRefreshToken(db[req[r].identity]) :
         db' = [db EXCEPT ![req[r].identity] = updated]
    /\ req' = [req EXCEPT ![r] =
         [@ EXCEPT !.pc = "done", !.status = 200, !.cleared = TRUE,
                   !.msg = "User logged out successfully",
                   !.prevSlot = db[req[r].identity].refreshToken]]
    /\ UNCHANGED <<now, boundary>>

(* -------------------------------- clock -------------------------------- *)
Tick ==
    /\ now < MaxTime
    /\ now' = now + 1
    /\ UNCHANGED <<db, req, boundary>>

Next ==
    \/ \E r \in Req : LoginStart(r)
    \/ \E r \in Req : LoginFind(r)
    \/ \E r \in Req : GenFind(r)
    \/ \E r \in Req : GenSave(r)
    \/ \E r \in Req : LoginRespond(r)
    \/ \E r \in Req : RefreshStart(r)
    \/ \E r \in Req : RefreshFind(r)
    \/ \E r \in Req : AuthStart(r)
    \/ \E r \in Req : AuthFind(r)
    \/ \E r \in Req : LogoutUpdate(r)
    \/ Tick

Spec == Init /\ [][Next]_vars

(* ------------------------------ scheduling ----------------------------- *)
\* the continuation of a request after the await it is waiting at: the
\* promise settles and the event loop runs the rest of the handler
Continue(r) ==
    \/ LoginFind(r) \/ GenFind(r) \/ GenSave(r) \/ LoginRespond(r)
    \/ RefreshFind(r) \/ AuthFind(r) \/ LogoutUpdate(r)

FairSpec == Spec /\ \A r \in Req : WF_vars(Continue(r))

(* --------------------------- one client, in turn ----------------------- *)
\* a client that sends a request only after the previous one was answered
OneAtATime == \A q \in Req : req[q].pc \in {"idle", "done"}

NextSeq ==
    \/ \E r \in Req : OneAtATime /\ LoginStart(r)
    \/ \E r \in Req : LoginFind(r)
    \/ \E r \in Req : GenFind(r)
    \/ \E r \in Req : GenSave(r)
    \/ \E r \in Req : LoginRespond(r)
    \/ \E r \in Req : OneAtATime /\ RefreshStart(r)
    \/ \E r \in Req : RefreshFind(r)
    \/ \E r \in Req : OneAtATime /\ AuthStart(r)
    \/ \E r \in Req : AuthFind(r)
    \/ \E r \in Req : LogoutUpdate(r)
    \/ Tick

SpecSeq == Init /\ [][NextSeq]_vars

(* ------------------- tokens in more than one place --------------------- *)
\* one client in turn whose requests may carry a cookie together with an
\* Authorization header or a body field
NextExtract ==
    \/ \E r \in Req : OneAtATime /\ LoginStart(r)
    \/ \E r \in Req : LoginFind(r)
    \/ \E r \in Req : GenFind(r)
    \/ \E r \in Req : GenSave(r)
    \/ \E r \in Req : LoginRespond(r)
    \/ \E r \in Req : OneAtATime /\ RefreshStartWith(r, RefreshInputsAll)
    \/ \E r \in Req : RefreshFind(r)
    \/ \E r \in Req : OneAtATime /\ AuthStartWith(r, AuthInputsAll)
    \/ \E r \in Req : AuthFind(r)
    \/ \E r \in Req : LogoutUpdate(r)
    \/ Tick

SpecExtract == Init /\ [][NextExtract]_vars

(* --------------------------- after a logout ---------------------------- *)
\* the state a login of u1 at second 0 followed by u1's logout leaves: the
\* store as findByIdAndUpdate left it, and the finished logout request, which
\* presented the login's access token and found the login's refresh token
LoggedOut ==
    [IdleReq EXCEPT
        !.op = "logout", !.pc = "done", !.fresh = TRUE,
        !.cookie = generateAccessToken("u1", 0),
        !.token = generateAccessToken("u1", 0),
        !.uid = "u1", !.identity = "u1", !.ran = TRUE,
        !.user = select("u1", InitDoc("u1"), {"password", "refreshToken"}),
        !.logged = {"token string", "decoded claims", "user object"},
        !.status = 200, !.msg = "User logged out successfully",
        !.cleared = TRUE, !.prevSlot = generateRefreshToken("u1", 0)]

InitLoggedOut ==
    /\ \E updated \in clearRefreshToken(
                [InitDoc("u1") EXCEPT !.refreshToken = generateRefreshToken("u1", 0)]) :
          db = [u \in Users |-> IF u = "u1" THEN updated ELSE InitDoc(u)]
    /\ now = 0
    /\ req = [r \in Req |-> IF r = 1 THEN LoggedOut ELSE IdleReq]
    /\ boundary = IdleBoundary

SpecLoggedOut == InitLoggedOut /\ [][NextSeq]_vars

(* ------------------------- internal failures -------------------------- *)
\* what a rejected store operation throws: a MongooseError when the
\* connection is down and the buffered operation times out, an error of the
\* MongoDB driver when the connection breaks under the operation
StoreErrors ==
    {PlainError(TRUE, 0, "Operation buffering timed out", <<>>),
     PlainError(FALSE, 0, "connection closed", <<>>)}

\* what the code turns an error thrown at an await into: verifyJWT,
\* generateAccessAndRefreshToken and refreshAccessToken catch it and throw their
\* own ApiError; loginUser and logoutUser have no try block, and asyncHandler
\* hands the error itself to errorHandler
caught(rq, e) ==
    IF rq.pc = "a_find"
    THEN ApiError(401, "Not authorized, token failed")
    ELSE IF rq.op = "refresh"
    THEN RefreshFailed
    ELSE IF rq.pc \in {"g_find", "g_save"}
    THEN ApiError(500, "Something went wrong while generating access and refresh tokens")
    ELSE normalise(e)

failed(rq, e) ==
    errorHandler([rq EXCEPT !.failure = e.message, !.failedAt = rq.pc], caught(rq, e))

\* the store operation a request awaits is rejected; a rejected save has
\* written nothing
StoreFails(r) ==
    /\ req[r].pc \in {"l_find", "g_find", "g_save", "l_find2", "r_find", "a_find", "lo_update"}
    /\ \E e \in StoreErrors : req' = [req EXCEPT ![r] = failed(@, e)]
    /\ UNCHANGED <<db, now, boundary>>

\* line 159: bcrypt.compare rejects after findOne has found the user
HashFails(r) ==
    /\ req[r].op = "login" /\ req[r].pc = "l_find"
    /\ findOneByUsernameOrEmail(req[r].username, req[r].email) # {}
    /\ req' = [req EXCEPT ![r] = failed(@, PlainError(FALSE, 0, "bcrypt: invalid hash", <<>>))]
    /\ UNCHANGED <<db, now, boundary>>

\* lines 25-26: jwt.sign throws after findById has found the user
SignFails(r) ==
    /\ req[r].pc = "g_find" /\ req[r].uid \in Users
    /\ req' = [req EXCEPT ![r] =
            failed(@, PlainError(FALSE, 0, "secretOrPrivateKey must have a value", <<>>))]
    /\ UNCHANGED <<db, now, boundary>>

NextFail ==
    \/ NextSeq
    \/ \E r \in Req : StoreFails(r)
    \/ \E r \in Req : HashFails(r)
    \/ \E r \in Req : SignFails(r)

SpecFail == Init /\ [][NextFail]_vars

(* ---------------------- the error handler on its own ------------------- *)
NodeEnvs == {"development", "production", None}

\* the errors next(err) can hand over: ApiErrors as the controllers throw them,
\* and errors of other classes (mongoose, a library, a TypeError)
Thrown ==
    {ApiErrorWith(c, m, e, "") :
        c \in {400, 401, 404, 409, 500},
        m \in {"Something went wrong", "User not found"},
        e \in {<<>>, <<"detail">>}}
    \cup
    {PlainError(g, c, m, e) :
        g \in BOOLEAN, c \in {0, 403}, m \in {"", "boom"},
        e \in {<<>>, <<"detail">>}}

InitErr ==
    /\ db = [u \in Users |-> InitDoc(u)]
    /\ now = 0
    /\ req = [r \in Req |-> IdleReq]
    /\ boundary \in {[env |-> e, err |-> x, response |-> NoResponse] :
                        e \in NodeEnvs, x \in Thrown}

\* errorHandler(err, req, res, next)
HandleError ==
    /\ boundary.response.status = 0
    /\ boundary' = [boundary EXCEPT !.response = ErrorResponse(boundary.err, boundary.env)]
    /\ UNCHANGED <<db, now, req>>

NextErr == HandleError

SpecErr == InitErr /\ [][NextErr]_vars

(* ============================== claims ================================= *)
IsRefresh(r) == req[r].op = "refresh"
IsLogin(r) == req[r].op = "login"
IsProtected(r) == req[r].op \in ProtectedOps
Done(r) == req[r].pc = "done"
NoTokensIn(rq) ==
    /\ rq.bodyA = NoTok /\ rq.bodyR = NoTok
    /\ rq.cookieA = NoTok /\ rq.cookieR = NoTok
IssuedPair(rq) == rq.status = 200 /\ rq.bodyA # NoTok /\ rq.bodyR # NoTok
ValidRefresh(tok, fresh) ==
    tok.form = "jwt" /\ tok.key = "REFRESH_TOKEN_SECRET" /\ fresh
ValidAccess(tok, fresh) ==
    tok.form = "jwt" /\ tok.key = "ACCESS_TOKEN_SECRET" /\ fresh

\* C1: of two refresh requests that present the same correctly signed,
\* unexpired token T, each arriving while T is the stored token of its user,
\* exactly one answers 200 with a new pair and the other answers 401.
C1_ExactlyOneOfTwoRefreshesSucceeds ==
    \A r1, r2 \in Req :
        ( /\ r1 < r2
          /\ IsRefresh(r1) /\ IsRefresh(r2) /\ Done(r1) /\ Done(r2)
          /\ req[r1].token = req[r2].token
          /\ ValidRefresh(req[r1].token, req[r1].fresh /\ req[r2].fresh)
          /\ req[r1].sawStored /\ req[r2].sawStored )
        => \/ IssuedPair(req[r1]) /\ req[r2].status = 401
           \/ IssuedPair(req[r2]) /\ req[r1].status = 401

\* C2: a refresh request changes the refresh-token slot only in a step in which
\* the slot still holds the token the request presented.
C2_RefreshWriteIsConditionalSwap ==
    [][\A r \in Req :
        ( /\ IsRefresh(r) /\ req[r].pc = "g_save" /\ req'[r].pc # "g_save"
          /\ db'[req[r].uid].refreshToken # db[req[r].uid].refreshToken )
        => db[req[r].uid].refreshToken = req[r].token]_vars

\* C3: a refresh request that presents a token with which an earlier refresh
\* request has already succeeded answers 401 and hands out no token, also when
\* the token is still correctly signed and unexpired.
C3_ReplayAnswers401 ==
    \A r \in Req :
        ( /\ IsRefresh(r) /\ Done(r) /\ req[r].replay
          /\ ValidRefresh(req[r].token, req[r].fresh) )
        => req[r].status = 401 /\ NoTokensIn(req[r])

\* C4: a refresh request that presents the token a completed logout has just
\* cleared answers 401 and hands out no token.
C4_RefreshAfterLogoutAnswers401 ==
    \A r \in Req :
        (IsRefresh(r) /\ Done(r) /\ req[r].afterLogout)
        => req[r].status = 401 /\ NoTokensIn(req[r])

C7_WrongPasswordAnswers401 ==
    [][\A r \in Req :
        LET found == findOneByUsernameOrEmail(req[r].username, req[r].email)
        IN ( /\ IsLogin(r) /\ req[r].pc = "l_find" /\ req'[r].pc # "l_find"
             /\ found # {}
             /\ \A u \in found : ~isPasswordCorrect(db[u], req[r].password) )
           => /\ req'[r].status = 401
              /\ NoTokensIn(req'[r])
              /\ db' = db]_vars

\* C8: a login that carries the correct password with a registered username
\* alone, or with a registered email alone, answers 200 with a token pair.
C8_LoginByUsernameOrEmail ==
    \A r \in Req : \A u \in Users :
        ( /\ IsLogin(r) /\ Done(r)
          /\ \/ req[r].email = db[u].email /\ req[r].username = None
             \/ req[r].username = db[u].username /\ req[r].email = None
          /\ isPasswordCorrect(db[u], req[r].password) )
        => IssuedPair(req[r])

\* C9: a refresh request that does not answer 200 answers 401.
C9_RefreshFailureAnswers401 ==
    \A r \in Req :
        (IsRefresh(r) /\ Done(r) /\ req[r].status # 200) => req[r].status = 401

\* C10: on a protected route the handler has run only if verifyJWT verified
\* the access token and attached the user it names; a request whose token is
\* absent, fails verification or names no existing user ends with 401 and its
\* handler has not run (a logout has not cleared any slot).
C10_HandlerOnlyAfterAuthentication ==
    \A r \in Req :
        IsProtected(r) =>
            /\ (req[r].ran \/ req[r].pc = "lo_update" \/ req[r].prevSlot # NoTok
                    \/ req[r].cleared \/ req[r].status = 200)
                => /\ ValidAccess(req[r].token, req[r].fresh)
                   /\ req[r].token.sub \in Users
                   /\ req[r].identity = req[r].token.sub
            /\ ( /\ Done(r)
                 /\ \/ req[r].token = NoTok
                    \/ ~ValidAccess(req[r].token, req[r].fresh)
                    \/ req[r].token.sub \notin Users )
                => /\ req[r].status = 401
                   /\ ~req[r].ran /\ req[r].identity = None /\ ~req[r].cleared

\* one request was refused because its verified token names no existing user,
\* and a logout has passed verifyJWT and run its handler
C10_Witness ==
    \E r1, r2 \in Req :
        /\ IsProtected(r1) /\ Done(r1) /\ req[r1].status = 401
        /\ ValidAccess(req[r1].token, req[r1].fresh) /\ req[r1].token.sub \notin Users
        /\ req[r2].op = "logout" /\ Done(r2) /\ req[r2].ran /\ req[r2].cleared

\* C11: a protected request whose access token is correctly signed and names
\* an existing user, presented when the clock has reached the token's exp, is
\* answered 401 by verifyJWT: no identity is attached and no handler runs.
C11_ExpiredAccessTokenRejected ==
    \A r \in Req :
        ( /\ IsProtected(r)
          /\ req[r].token.form = "jwt" /\ req[r].token.key = "ACCESS_TOKEN_SECRET"
          /\ req[r].token.sub \in Users
          /\ ~req[r].fresh )
        => /\ Done(r) /\ req[r].status = 401
           /\ req[r].msg = "Not authorized, token failed"
           /\ req[r].identity = None /\ ~req[r].ran /\ ~req[r].cleared

\* an access token a login returned was presented after its expiry and refused
C11_Witness ==
    \E l, r \in Req :
        /\ IsLogin(l) /\ IssuedPair(req[l])
        /\ IsProtected(r) /\ Done(r) /\ req[r].token = req[l].bodyA
        /\ ~req[r].fresh /\ req[r].status = 401

\* C12: one client in turn: a login returns T1r; a refresh with T1r answers 200
\* with T2a and T2r; the next refresh answers 401 if it presents T1r again and
\* 200 if it presents T2r.
C12_RotationChain ==
    \A l, a, b \in Req :
        ( /\ a = l + 1 /\ b = a + 1
          /\ IsLogin(l) /\ IssuedPair(req[l])
          /\ IsRefresh(a) /\ Done(a)
          /\ req[a].token = req[l].bodyR /\ req[a].fresh )
        => /\ IssuedPair(req[a])
           /\ ( /\ IsRefresh(b) /\ Done(b) /\ req[b].fresh
                /\ req[b].token = req[l].bodyR )
               => req[b].status = 401 /\ NoTokensIn(req[b])
           /\ ( /\ IsRefresh(b) /\ Done(b) /\ req[b].fresh
                /\ req[b].token = req[a].bodyR )
               => IssuedPair(req[b])

\* C13: the step in which a refresh request answers 200 leaves the user's slot
\* equal to the refresh token the answer carries, and that token is another
\* string than the one the request presented.
C13_RotationChangesTheSlot ==
    [][\A r \in Req :
        (IsRefresh(r) /\ req[r].pc = "g_save" /\ req'[r].status = 200)
        => /\ db'[req[r].uid].refreshToken = req'[r].bodyR
           /\ req'[r].bodyR # req[r].token]_vars

\* C14: once a login of a user has answered 200 and the user's slot holds the
\* refresh token that login returned, no step of a refresh request that
\* presented another token of that user changes the slot or answers 200.
C14_LoginWins ==
    [][\A l, r \in Req :
        ( /\ IsLogin(l) /\ IssuedPair(req[l])
          /\ db[req[l].uid].refreshToken = req[l].bodyR
          /\ IsRefresh(r) /\ req[r].token.sub = req[l].uid
          /\ req[r].token # req[l].bodyR
          /\ req'[r] # req[r] )
        => /\ db'[req[l].uid].refreshToken = req[l].bodyR
           /\ req'[r].status # 200]_vars

\* C15: a protected request that arrives after a logout of the user has
\* answered 200, with an access token of that user that is correctly signed
\* and unexpired, passes verifyJWT with the user's identity and its handler
\* runs, whatever the user's refresh-token slot holds.
C15_LogoutKeepsAccessTokens ==
    \A a \in Req :
        ( /\ IsProtected(a) /\ req[a].afterLogout
          /\ req[a].pc \in {"lo_update", "done"}
          /\ ValidAccess(req[a].token, req[a].fresh)
          /\ req[a].token.sub \in Users )
        => /\ req[a].identity = req[a].token.sub
           /\ req[a].ran
           /\ req[a].status \in {0, 200}

\* a login returned an access token, a logout that found the login's refresh
\* token in the slot cleared it, and a later request with that access token
\* was answered 200 while the slot is absent
C15_Witness ==
    \E l, lo, a \in Req :
        /\ IsLogin(l) /\ IssuedPair(req[l])
        /\ req[lo].op = "logout" /\ req[lo].status = 200
        /\ req[lo].identity = req[l].uid /\ req[lo].prevSlot = req[l].bodyR
        /\ req[a].op = "currentUser" /\ req[a].afterLogout /\ Done(a)
        /\ req[a].token = req[l].bodyA /\ req[a].status = 200
        /\ db[req[l].uid].refreshToken = NoTok

\* C16: the step in which a logout answers 200 leaves the authenticated user's
\* slot absent, clears both cookies and changes no other user's document.
C16_LogoutClearsTheSlot ==
    [][\A r \in Req :
        (req[r].op = "logout" /\ req[r].pc = "lo_update" /\ req'[r].status = 200)
        => /\ db'[req[r].identity].refreshToken = NoTok
           /\ req'[r].cleared
           /\ \A v \in Users \ {req[r].identity} : db'[v] = db[v]]_vars

\* C17: every protected request refused with a token presented gets one and
\* the same status and message, and so does every refresh request refused with
\* a token presented, whether the token was expired, signed with another
\* secret, no JWT at all, of a user that does not exist or (refresh) not the
\* stored one.
C17_VerificationFailuresIndistinguishable ==
    /\ \A r \in Req :
        (Done(r) /\ req[r].status >= 400 /\ req[r].token # NoTok)
        => /\ IsProtected(r) =>
                /\ req[r].status = 401
                /\ req[r].msg = "Not authorized, token failed"
           /\ IsRefresh(r) =>
                /\ req[r].status = 500
                /\ req[r].msg = "Something went wrong while refreshing access token"
    /\ \A r1, r2 \in Req :
        ( /\ Done(r1) /\ req[r1].status >= 400 /\ req[r1].token # NoTok
          /\ Done(r2) /\ req[r2].status >= 400 /\ req[r2].token # NoTok
          /\ \/ IsProtected(r1) /\ IsProtected(r2)
             \/ IsRefresh(r1) /\ IsRefresh(r2) )
        => req[r1].status = req[r2].status /\ req[r1].msg = req[r2].msg

\* two refresh requests were refused, one for a string that is no JWT and one
\* for a token a login returned, presented after its expiry
C17_Witness ==
    \E l, r1, r2 \in Req :
        /\ IsLogin(l) /\ IssuedPair(req[l])
        /\ IsRefresh(r1) /\ Done(r1) /\ req[r1].status >= 400
        /\ req[r1].token = Garbage
        /\ IsRefresh(r2) /\ Done(r2) /\ req[r2].status >= 400
        /\ req[r2].token = req[l].bodyR /\ ~req[r2].fresh

C19_TokenDeliveryAllOrNothing ==
    \A r \in Req :
        (IsLogin(r) \/ IsRefresh(r)) =>
            /\ (req[r].cookieA # NoTok \/ req[r].cookieR # NoTok)
                => /\ req[r].cookieA # NoTok /\ req[r].cookieR # NoTok
                   /\ Done(r) /\ req[r].status = 200
                   /\ req[r].bodyA = req[r].cookieA
                   /\ req[r].bodyR = req[r].cookieR
                   /\ req[r].cookieA.kind = "access"
                   /\ req[r].cookieR.kind = "refresh"
            /\ req[r].status = 200
                => req[r].cookieA # NoTok /\ req[r].cookieR # NoTok
            /\ req[r].status >= 400 => NoTokensIn(req[r])

\* a login and a refresh have delivered their pairs, and a third request of
\* these operations was answered with an error
C19_Witness ==
    \E l, r, e \in Req :
        /\ IsLogin(l) /\ IssuedPair(req[l]) /\ req[l].cookieR = req[l].bodyR
        /\ IsRefresh(r) /\ IssuedPair(req[r]) /\ req[r].cookieR = req[r].bodyR
        /\ (IsLogin(e) \/ IsRefresh(e)) /\ req[e].status >= 400

\* C20: the body of every response the error handler writes has the fields
\* success (false), message, data and errors, and has a stack field only when
\* NODE_ENV is "development".
C20_ErrorEnvelope ==
    boundary.response.status # 0 =>
        LET body == boundary.response.body
        IN /\ {"success", "message", "data", "errors"} \subseteq DOMAIN body
           /\ body["success"] = FALSE
           /\ "stack" \in DOMAIN body => boundary.env = "development"

C22_AuthenticateLeavesSlots ==
    [][\A r \in Req :
        ( /\ req'[r] # req[r]
          /\ req[r].pc \in {"idle", "a_find"}
          /\ req'[r].op \in ProtectedOps )
        => \A u \in Users : db'[u].refreshToken = db[u].refreshToken]_vars

\* while a login's refresh token is in the slot, one protected request was
\* answered 200 and another was refused
C22_Witness ==
    \E l, a, b \in Req :
        /\ IsLogin(l) /\ IssuedPair(req[l])
        /\ db[req[l].uid].refreshToken = req[l].bodyR
        /\ req[a].op = "currentUser" /\ req[a].status = 200
        /\ req[a].identity = req[l].uid
        /\ IsProtected(b) /\ req[b].status = 401 /\ req[b].token # NoTok

\* C23: a refresh request changes the store in one step only, the step in
\* which its save commits and it answers 200, and that step changes nothing
\* but its user's slot, to the refresh token of the answer; every other step
\* of the request leaves the store as it was, and a request that was refused
\* has signed nothing.
C23_RefreshWritesOnceOnSuccess ==
    [][\A r \in Req :
        /\ (req'[r].op = "refresh" /\ req'[r] # req[r] /\ db' # db)
            => /\ req[r].pc = "g_save"
               /\ req'[r].pc = "done" /\ req'[r].status = 200
               /\ db' = [db EXCEPT ![req[r].uid].refreshToken = req'[r].bodyR]
        /\ (IsRefresh(r) /\ req[r].status >= 400)
            => req[r].newA = NoTok /\ req[r].newR = NoTok]_vars

\* one refresh rotated the slot and another, with a correctly signed and
\* unexpired token of the same user, was refused at the lookup: the slot holds
\* what the rotation wrote
C23_Witness ==
    \E r1, r2 \in Req :
        /\ IsRefresh(r1) /\ IssuedPair(req[r1])
        /\ IsRefresh(r2) /\ Done(r2) /\ req[r2].status >= 400
        /\ ValidRefresh(req[r2].token, req[r2].fresh)
        /\ req[r2].token.sub = req[r1].uid
        /\ db[req[r1].uid].refreshToken = req[r1].bodyR
        /\ req[r1].bodyR # req[r1].token

\* C24: a protected request that presents a refresh token is answered 401 with
\* no identity attached and no handler run, and a refresh request that
\* presents an access token is refused, signs nothing and hands out no token,
\* also while the presented token is unexpired.
C24_OtherKindRejected ==
    \A r \in Req :
        /\ ( /\ IsProtected(r)
             /\ req[r].token.form = "jwt" /\ req[r].token.kind = "refresh" )
            => /\ Done(r) /\ req[r].status = 401
               /\ req[r].identity = None /\ ~req[r].ran /\ ~req[r].cleared
        /\ ( /\ IsRefresh(r)
             /\ req[r].token.form = "jwt" /\ req[r].token.kind = "access" )
            => /\ Done(r) /\ req[r].status >= 400
               /\ NoTokensIn(req[r])
               /\ req[r].newA = NoTok /\ req[r].newR = NoTok

\* the two tokens of one login were presented the wrong way round before
\* either had expired, and both requests were refused
C24_Witness ==
    \E l, a, r \in Req :
        /\ IsLogin(l) /\ IssuedPair(req[l])
        /\ IsProtected(a) /\ req[a].token = req[l].bodyR /\ req[a].fresh
        /\ req[a].status = 401
        /\ IsRefresh(r) /\ req[r].token = req[l].bodyA /\ req[r].fresh
        /\ req[r].status >= 400

\* C25: a login, refresh or logout request struck by a failure of the store,
\* of the password comparison or of the signing is answered 500, and the
\* message of the error it is answered with is not the thrown error's text.
C25_InternalFailureIs500Generic ==
    \A r \in Req :
        (req[r].failure # None /\ req[r].failedAt # "a_find")
        => /\ Done(r) /\ req[r].status = 500
           /\ req[r].msg # req[r].failure

\* C26: a login that carries neither email nor username, or no password, is
\* answered 400 in the step in which it arrives: it starts no lookup, signs
\* nothing, hands out no token and leaves the store as it was.
C26_MissingFieldAnswers400 ==
    [][\A r \in Req :
        ( /\ req[r].pc = "idle" /\ req'[r].op = "login"
          /\ \/ req'[r].email = None /\ req'[r].username = None
             \/ req'[r].password = None )
        => /\ req'[r].pc = "done" /\ req'[r].status = 400
           /\ req'[r].uid = None
           /\ NoTokensIn(req'[r])
           /\ req'[r].newA = NoTok /\ req'[r].newR = NoTok
           /\ db' = db]_vars

\* a login without any identifier and a login without a password were both
\* answered 400 while a session token of an earlier login stays in its slot
C26_Witness ==
    \E l, r1, r2 \in Req :
        /\ IsLogin(l) /\ IssuedPair(req[l])
        /\ db[req[l].uid].refreshToken = req[l].bodyR
        /\ IsLogin(r1) /\ req[r1].email = None /\ req[r1].username = None
        /\ req[r1].status = 400
        /\ IsLogin(r2) /\ req[r2].email # None /\ req[r2].password = None
        /\ req[r2].status = 400

\* the awaits of a request in the order the handlers pass them
Rank(pc) ==
    CASE pc = "idle" -> 0
      [] pc \in {"l_find", "r_find", "a_find"} -> 1
      [] pc \in {"g_find", "lo_update"} -> 2
      [] pc = "g_save" -> 3
      [] pc = "l_find2" -> 4
      [] pc = "done" -> 5

\* C27: every request that has arrived is answered (again and again no
\* request is in flight, so none stays unanswered): it has a status exactly
\* when it is finished, a finished request takes no further step (one
\* response, no later write), every step moves it forward to a later await
\* (nothing is run again), a step that answers with an error writes nothing,
\* and a protected request answered with an error was not also handed to its
\* handler.
C27_ExactlyOneOutcome ==
    /\ [][\A r \in Req :
            /\ (req[r].status # 0) <=> (req[r].pc = "done")
            /\ req[r].pc = "done" => req'[r] = req[r]
            /\ req'[r] # req[r] => Rank(req'[r].pc) > Rank(req[r].pc)
            /\ (req[r].status = 0 /\ req'[r].status >= 400) => db' = db
            /\ (IsProtected(r) /\ req[r].status >= 400) => ~req[r].ran]_vars
    /\ []<>(\A r \in Req : req[r].pc \in {"idle", "done"})

\* all requests are finished: a login answered 200, a protected request handed
\* to its handler, and a third request answered with an error
C27_Witness ==
    \E l, a, e \in Req :
        /\ \A r \in Req : Done(r)
        /\ IsLogin(l) /\ req[l].status = 200
        /\ IsProtected(a) /\ req[a].ran /\ req[a].status = 200
        /\ req[e].status >= 400

C29_ExtractionOrder ==
    \A r \in Req :
        /\ ( /\ IsProtected(r) /\ req[r].pc \in {"lo_update", "done"}
             /\ req[r].cookie # NoTok \/ req[r].scheme \in {None, "Bearer "} )
            => LET chosen == IF req[r].cookie # NoTok THEN req[r].cookie
                             ELSE IF req[r].scheme = None THEN NoTok
                             ELSE req[r].alt
               IN /\ req[r].token = chosen
                  /\ chosen = NoTok =>
                        /\ req[r].status = 401
                        /\ req[r].msg = "Not authorized, no token"
                  /\ (ValidAccess(chosen, req[r].fresh) /\ chosen.sub \in Users)
                        => req[r].identity = chosen.sub /\ req[r].ran
                  /\ ~(ValidAccess(chosen, req[r].fresh) /\ chosen.sub \in Users)
                        => /\ req[r].status = 401
                           /\ req[r].identity = None /\ ~req[r].ran
        /\ (IsRefresh(r) /\ Done(r))
            => LET chosen == IF req[r].cookie # NoTok THEN req[r].cookie
                             ELSE req[r].alt
               IN /\ req[r].token = chosen
                  /\ chosen = NoTok =>
                        /\ req[r].status = 401
                        /\ req[r].msg = "Refresh token is required"
                  /\ req[r].status = 200 =>
                        /\ ValidRefresh(chosen, req[r].fresh)
                        /\ req[r].bodyR.sub = chosen.sub
                  /\ (ValidRefresh(chosen, req[r].fresh) /\ req[r].sawStored)
                        => IssuedPair(req[r])

\* a protected request with a cookie that is no JWT and the login's access
\* token in its Bearer header was answered 401, and a refresh request without
\* cookie, with the login's refresh token in the body field and its access
\* token in the Authorization header, was answered 200
C29_Witness ==
    \E l, a, r \in Req :
        /\ IsLogin(l) /\ IssuedPair(req[l])
        /\ IsProtected(a) /\ req[a].cookie = Garbage
        /\ req[a].scheme = "Bearer " /\ req[a].alt = req[l].bodyA
        /\ req[a].status = 401
        /\ IsRefresh(r) /\ req[r].cookie = NoTok /\ req[r].alt = req[l].bodyR
        /\ req[r].authz = req[l].bodyA
        /\ IssuedPair(req[r])

\* C30: once a logout of a user has completed and the user's slot is absent,
\* the only step that puts a token into the slot is the save of a login of
\* that user; no refresh request, in particular none that was in flight when
\* the logout ran, makes the slot present again.
C30_LogoutFinalUntilLogin ==
    [][\A u \in Users :
        ( /\ \E lo \in Req : /\ req[lo].op = "logout" /\ Done(lo)
                              /\ req[lo].status = 200 /\ req[lo].identity = u
          /\ db[u].refreshToken = NoTok
          /\ db'[u].refreshToken # NoTok )
        => \E l \in Req : /\ IsLogin(l) /\ req[l].uid = u
                          /\ req[l].pc = "g_save" /\ req'[l].pc # "g_save"]_vars

\* C31: every user's slot is absent or holds a refresh token, signed with the
\* refresh secret for that user, that a login or a refresh request of that
\* user generated and saved; it never holds a token of another user or an
\* access token.
C31_SlotHoldsOwnRefreshToken ==
    \A u \in Users :
        LET slot == db[u].refreshToken
        IN slot # NoTok =>
             /\ slot.form = "jwt" /\ slot.kind = "refresh"
             /\ slot.key = "REFRESH_TOKEN_SECRET"
             /\ slot.sub = u
             /\ \E t \in 0..now : slot = generateRefreshToken(u, t)
             /\ \A q \in Req : slot # req[q].newA
             /\ \E r \in Req : /\ IsLogin(r) \/ IsRefresh(r)
                               /\ req[r].uid = u /\ req[r].newR = slot
                               /\ req[r].pc \in {"l_find2", "done"}

\* both users hold a session, one of them written by a rotation
C31_Witness ==
    /\ \A u \in Users : db[u].refreshToken # NoTok
    /\ \E r \in Req : /\ IsRefresh(r) /\ IssuedPair(req[r])
                      /\ db[req[r].uid].refreshToken = req[r].bodyR
                      /\ req[r].bodyR # req[r].token

\* C32: no step of a refresh request changes the document of a user other
\* than the subject of the token it presented, and a refresh request answered
\* 200 returns an access token and a refresh token, in the body and in the
\* cookies, whose subject is the subject of the token it presented.
C32_RotationScopedToOneUser ==
    [][\A r \in Req :
        (req'[r].op = "refresh" /\ req'[r] # req[r])
        => /\ \A u \in Users : db'[u] # db[u] => u = req'[r].token.sub
           /\ req'[r].status = 200 =>
                /\ req'[r].bodyA = generateAccessToken(req'[r].token.sub, req'[r].bodyA.iat)
                /\ req'[r].bodyR = generateRefreshToken(req'[r].token.sub, req'[r].bodyR.iat)
                /\ req'[r].cookieA = req'[r].bodyA
                /\ req'[r].cookieR = req'[r].bodyR]_vars

\* u1's token was rotated while u2 held a session of its own
C32_Witness ==
    \E r \in Req :
        /\ IsRefresh(r) /\ req[r].status = 200
        /\ req[r].token.sub = "u1" /\ req[r].bodyR.sub = "u1"
        /\ req[r].bodyR # req[r].token
        /\ db["u1"].refreshToken = req[r].bodyR
        /\ db["u2"].refreshToken.sub = "u2"

\* C33: the user object attached to an authenticated request is the stored
\* record of the token's subject (id, username, email, full name) without the
\* password hash and the refresh token; the user object in the body of a
\* login response and of a protected handler's response has neither of the
\* two fields; a request that was not authenticated has no user object.
C33_IdentityWithoutSecrets ==
    \A r \in Req :
        /\ {"password", "refreshToken"} \cap DOMAIN req[r].user = {}
        /\ {"password", "refreshToken"} \cap DOMAIN req[r].bodyUser = {}
        /\ (IsProtected(r) /\ req[r].ran) =>
              LET u == req[r].token.sub
              IN req[r].user = [id |-> u, username |-> db[u].username,
                                email |-> db[u].email, fullname |-> db[u].fullname]
        /\ (IsProtected(r) /\ ~req[r].ran) => req[r].user = NoUser
        /\ (IsLogin(r) /\ req[r].status = 200) =>
              LET u == req[r].uid
              IN req[r].bodyUser = [id |-> u, username |-> db[u].username,
                                    email |-> db[u].email, fullname |-> db[u].fullname]

\* a login answered with a user object and a protected handler that ran with
\* one, while the user's slot held a refresh token
C33_Witness ==
    \E l, a \in Req :
        /\ IsLogin(l) /\ req[l].status = 200 /\ req[l].bodyUser.id = req[l].uid
        /\ IsProtected(a) /\ req[a].ran /\ req[a].user.id = req[l].uid
        /\ req[a].op = "currentUser" /\ req[a].status = 200
        /\ db[req[l].uid].refreshToken # NoTok

\* C34: a refresh request that presents an expired token is rejected without
\* tokens and none of its steps changes the store, also when the token is the
\* one in the slot; the passing of time changes no slot.
C34_ExpiredRefreshRejectedSlotKept ==
    [][/\ \A r \in Req :
            ( /\ req'[r].op = "refresh" /\ req'[r] # req[r]
              /\ req'[r].token.form = "jwt" /\ ~req'[r].fresh )
            => /\ req'[r].pc = "done" /\ req'[r].status >= 400
               /\ NoTokensIn(req'[r])
               /\ db' = db
       /\ now' # now => db' = db]_vars

\* the token in the slot was presented after its expiry, was rejected, and is
\* still in the slot
C34_Witness ==
    \E r \in Req :
        /\ IsRefresh(r) /\ Done(r)
        /\ req[r].token.form = "jwt" /\ req[r].token.key = "REFRESH_TOKEN_SECRET"
        /\ req[r].sawStored /\ ~req[r].fresh
        /\ req[r].status >= 400
        /\ db[req[r].token.sub].refreshToken = req[r].token
        /\ now >= req[r].token.exp

\* request q has written the slot of user u: a login or a refresh request
\* past its save, or a logout past its update
Wrote(q, u) ==
    \/ /\ req[q].op \in {"login", "refresh"} /\ req[q].uid = u
       /\ req[q].pc \in {"l_find2", "done"} /\ req[q].newR # NoTok
    \/ /\ req[q].op = "logout" /\ req[q].cleared /\ req[q].identity = u

\* C35: two logins of one user are in flight together, both have saved, and
\* nothing else has written the user's slot; when the first of them answers
\* 200, the slot holds the refresh token of exactly one of the two (the
\* token this one returns, or the token the other is about to return).
C35_ConcurrentLoginsLastWriterWins ==
    [][\A l1, l2 \in Req :
        ( /\ l1 # l2 /\ IsLogin(l1) /\ IsLogin(l2)
          /\ req[l1].pc = "l_find2" /\ req[l2].pc = "l_find2"
          /\ req[l1].uid = req[l2].uid
          /\ \A q \in Req \ {l1, l2} : ~Wrote(q, req[l1].uid)
          /\ req'[l1].status = 200 )
        => LET slot == db'[req[l1].uid].refreshToken
           IN (slot = req'[l1].bodyR) # (slot = req[l2].newR)]_vars

\* C36: no request has written a token string, a decoded claim set, a raw
\* credential or a signing secret to the server log.
C36_NoSecretsInTheLog ==
    \A r \in Req :
        req[r].logged \cap {"token string", "decoded claims",
                            "raw credential", "signing secret"} = {}

\* C37: the response's status is the statusCode of an ApiError; for an error
\* of another class it is the error's own statusCode when it has one, 400
\* when it has none and is a mongoose error, and 500 otherwise.
C37_StatusOfTheErrorResponse ==
    boundary.response.status # 0 =>
        boundary.response.status =
            IF boundary.err.isApiError THEN boundary.err.statusCode
            ELSE IF boundary.err.statusCode # 0 THEN boundary.err.statusCode
            ELSE IF boundary.err.isMongoose THEN 400
            ELSE 500

====
